---- MODULE Spec2Model ----
(***************************************************************************)
(* Push-token registration and broadcast fan-out of the two Convex         *)
(* deployments of the repository: the user variant ("with auth",           *)
(* convex/pushNotifications.ts over the users table) and the device        *)
(* variant ("without auth", over the devices table).  Every backend        *)
(* handler is one action; the value it returns (or the error it throws)    *)
(* is kept in `result` together with the calls it made to the delivery     *)
(* component.                                                              *)
(***************************************************************************)
EXTENDS Integers, Sequences, FiniteSets, TLC

\* ------------------------------------------------------------------ bounds
MaxUsers == 3
MaxTokens == 2
MaxDevices == 2
MaxNotifIds == 1
MaxTime == 1

\* ------------------------------------------------------- values of the code
\* undefined / null: an absent pushToken, a null user, a null notification id
None == 0
\* the delivery call raised instead of returning
Throw == -1

UserIds == 1..MaxUsers
DeviceIds == 1..MaxDevices
Tokens == 1..MaxTokens
NotifIds == 1..MaxNotifIds
Times == 0..MaxTime

VARIABLES
  variant,   \* which deployment this is: "user" or "device"
  users,     \* the users table, in enumeration order: rows [id, pushToken]
  devices,   \* the devices table, in enumeration order
  compTok,   \* the delivery component's own token store: recipient id -> token
  paused,    \* the delivery component's pause flag of each recipient
  calls,     \* invocations running step by step between awaits: process -> call
  client,    \* the state of the usePushNotifications hook on one phone
  result     \* what the last handler returned or threw, and its delivery calls

vars == <<variant, users, devices, compTok, paused, calls, client, result>>

\* two clients whose registerDevice invocations may overlap
Procs == {"a", "b"}

\* ------------------------------------------------------------ table helpers
Ids(s) == [i \in 1..Len(s) |-> s[i].id]

\* what ctx.db.get and .first() give when no row matches (null)
NoUser == [id |-> None, pushToken |-> None]
NoDevice == [id |-> None, pushToken |-> None, isActive |-> FALSE,
             hasIsActive |-> FALSE, lastSeen |-> 0]

\* ctx.db.get(id): the row, or the null row
\* a lookup that falls back to the first row when the id matches none
GetOrFirst(table, id, null) ==
  IF \E i \in 1..Len(table) : table[i].id = id
  THEN table[CHOOSE i \in 1..Len(table) : table[i].id = id]
  ELSE IF table # <<>> THEN table[1] ELSE null

Get(table, id, null) ==
  IF \E i \in 1..Len(table) : table[i].id = id
  THEN table[CHOOSE i \in 1..Len(table) : table[i].id = id]
  ELSE null

\* a patch that keeps a token the row already holds
PatchTokenKeep(table, id, tok) ==
  [i \in 1..Len(table) |->
     IF table[i].id = id /\ (table[i].pushToken = None \/ tok = None)
     THEN [table[i] EXCEPT !.pushToken = tok]
     ELSE table[i]]

\* ctx.db.patch(id, fields) for one field
PatchToken(table, id, tok) ==
  [i \in 1..Len(table) |->
     IF table[i].id = id THEN [table[i] EXCEPT !.pushToken = tok] ELSE table[i]]

\* a registerDevice invocation between its awaits: where it is, its argument,
\* the row its lookup found, and the id it returned
NoCall == [pc |-> "idle", pushToken |-> None, existingDevice |-> NoDevice,
           ret |-> None]

\* the hook's state before anything happened on the phone: nothing loading,
\* no error, no token, no device id, permission not asked yet, no alert
\* shown, no test mutation completed
NoClient == [isLoading |-> FALSE, error |-> FALSE, expoPushToken |-> None,
             deviceId |-> None, permission |-> "undetermined",
             alert |-> "none", sent |-> FALSE]

\* ------------------------------------------------------------ data objects
\* A notification's data object: per key the set of its values, empty when
\* the key is absent. type, senderId and timestamp are the keys the
\* broadcasts write, severity stands for any other key.
NoData == [type |-> {}, senderId |-> {}, timestamp |-> {}, severity |-> {}]

DataKeys == {"type", "senderId", "timestamp", "severity"}

\* what a caller may pass as args.data (omitted: NoData)
DataObjects ==
  [type : {{}, {"maintenance"}},
   senderId : {{}} \cup {{u} : u \in UserIds},
   timestamp : {{}} \cup {{t} : t \in Times},
   severity : {{}, {"high"}}]

\* { ...data, senderId: senderId } where senderId may be undefined
withSender(data, senderId) ==
  [data EXCEPT !.senderId = IF senderId = None THEN {} ELSE {senderId}]

\* user variant: { ...args.data, type: "broadcast", senderId, timestamp }
userBroadcastData(data, senderId, t) ==
  withSender([data EXCEPT !.type = {"broadcast"}, !.timestamp = {t}], senderId)

\* { ...args.data, type: "system_broadcast", timestamp }
systemBroadcastData(data, t) ==
  [data EXCEPT !.type = {"system_broadcast"}, !.timestamp = {t}]

\* device variant: { ...args.data, type: "broadcast", timestamp }
deviceBroadcastData(data, t) ==
  [data EXCEPT !.type = {"broadcast"}, !.timestamp = {t}]

\* ---------------------------------------------------------------- results
\* What the last handler answered, with what it did on the way: attempts are
\* its delivery calls, time the Date.now() it wrote, queried whether it asked
\* the component for a status, registered whether the row a removal read was
\* still registered (a user's pushToken set, a device's isActive true), held
\* the pushToken on the user row recordPushToken read, data the caller's
\* args.data and payload the data object handed to the delivery component.
NoResult ==
  [op |-> "none", ok |-> TRUE, error |-> "", caller |-> None, arg |-> None,
   excludeCurrentUser |-> FALSE, excludeDeviceId |-> None,
   requireAuth |-> TRUE, ret |-> None, senderId |-> None,
   success |-> 0, failed |-> 0, total |-> 0,
   totalUsers |-> 0, usersWithTokens |-> 0, usersWithoutTokens |-> 0,
   hasToken |-> FALSE, paused |-> FALSE, isActive |-> FALSE,
   details |-> <<>>, attempts |-> <<>>,
   time |-> 0, queried |-> FALSE, registered |-> FALSE, held |-> None,
   data |-> NoData, payload |-> NoData]

Threw(op, caller, arg, msg) ==
  [NoResult EXCEPT !.op = op, !.ok = FALSE, !.error = msg,
                   !.caller = caller, !.arg = arg]

Returned(op, caller, arg, ret) ==
  [NoResult EXCEPT !.op = op, !.caller = caller, !.arg = arg, !.ret = ret]

\* one entry of a broadcast's details array
Detail(id, status, nid, err) ==
  [id |-> id, status |-> status, notificationId |-> nid, error |-> err]

\* ------------------------------------------------------ delivery component
\* pushNotifications.recordToken / removeToken
recordToken(store, id, tok) == [store EXCEPT ![id] = tok]
removeToken(store, id) == [store EXCEPT ![id] = None]

\* What pushNotifications.sendPushNotification may answer for a recipient,
\* called with allowUnregisteredTokens: null when the component holds no token
\* for it or its notifications are paused, a notification id otherwise; or the
\* call raises.
DeliveryOutcomes(id) ==
  IF compTok[id] = None \/ paused[id] THEN {None, Throw}
  ELSE NotifIds \cup {Throw}

\* the answers to a sequence of delivery calls, one per recipient, in order
OutcomeSeqs(recips) ==
  {o \in [1..Len(recips) -> {None, Throw} \cup NotifIds] :
     \A i \in 1..Len(recips) : o[i] \in DeliveryOutcomes(recips[i].id)}

\* no handler is running: the last answer has been handed back
Idle == result.op = "none"

\* ------------------------------------------------------------ user variant
\* a getCurrentUser that takes the first user when there is no session
getCurrentUserFirst(caller) ==
  IF caller = None THEN (IF users = <<>> THEN NoUser ELSE users[1])
  ELSE Get(users, caller, NoUser)

\* getCurrentUser(ctx): caller is the session's user id, or None
getCurrentUser(caller) == IF caller = None THEN NoUser ELSE Get(users, caller, NoUser)

Callers == {None} \cup {users[i].id : i \in 1..Len(users)}

\* recordPushToken without its ctx.db.patch of the user record
recordPushTokenComponentOnly(caller, token) ==
  /\ variant = "user"
  /\ Idle
  /\ LET user == getCurrentUser(caller) IN
     IF user = NoUser
     THEN /\ result' = Threw("recordPushToken", caller, token, "auth")
          /\ UNCHANGED <<users, compTok>>
     ELSE /\ compTok' = recordToken(compTok, user.id, token)
          /\ users' = users
          /\ result' = [Returned("recordPushToken", caller, token, None)
                          EXCEPT !.held = user.pushToken]
  /\ UNCHANGED <<variant, client, calls, devices, paused>>

recordPushToken(caller, token) ==
  /\ variant = "user"
  /\ Idle
  /\ LET user == getCurrentUser(caller) IN
     IF user = NoUser
     THEN /\ result' = Threw("recordPushToken", caller, token, "auth")
          /\ UNCHANGED <<users, compTok>>
     ELSE /\ compTok' = recordToken(compTok, user.id, token)
          /\ users' = PatchToken(users, user.id, token)
          /\ result' = [Returned("recordPushToken", caller, token, None)
                          EXCEPT !.held = user.pushToken]
  /\ UNCHANGED <<variant, client, calls, devices, paused>>

removePushToken(caller) ==
  /\ variant = "user"
  /\ Idle
  /\ LET user == getCurrentUser(caller) IN
     IF user = NoUser
     THEN /\ result' = Threw("removePushToken", caller, None, "auth")
          /\ UNCHANGED <<users, compTok>>
     ELSE /\ compTok' = removeToken(compTok, user.id)
          /\ users' = PatchToken(users, user.id, None)
          /\ result' = [Returned("removePushToken", caller, None, None)
                          EXCEPT !.registered = user.pushToken # None]
  /\ UNCHANGED <<variant, client, calls, devices, paused>>

pauseMyNotifications(caller) ==
  /\ variant = "user"
  /\ Idle
  /\ LET user == getCurrentUser(caller) IN
     IF user = NoUser
     THEN /\ result' = Threw("pauseMyNotifications", caller, None, "auth")
          /\ UNCHANGED paused
     ELSE /\ paused' = [paused EXCEPT ![user.id] = TRUE]
          /\ result' = Returned("pauseMyNotifications", caller, None, None)
  /\ UNCHANGED <<variant, client, calls, users, devices, compTok>>

resumeMyNotifications(caller) ==
  /\ variant = "user"
  /\ Idle
  /\ LET user == getCurrentUser(caller) IN
     IF user = NoUser
     THEN /\ result' = Threw("resumeMyNotifications", caller, None, "auth")
          /\ UNCHANGED paused
     ELSE /\ paused' = [paused EXCEPT ![user.id] = FALSE]
          /\ result' = Returned("resumeMyNotifications", caller, None, None)
  /\ UNCHANGED <<variant, client, calls, users, devices, compTok>>

\* signOut as exported by convexAuth({providers}): the session ends; no
\* callback is configured, so neither the users table nor the delivery
\* component is written
signOut(caller) ==
  /\ variant = "user"
  /\ Idle
  /\ result' = Returned("signOut", caller, None, None)
  /\ UNCHANGED <<variant, client, calls, users, devices, compTok, paused>>

\* a raised delivery error is not caught here: the mutation fails as a whole
sendNotificationToUser(caller, recipientId) ==
  /\ variant = "user"
  /\ Idle
  /\ LET user == getCurrentUser(caller)
         recipient == Get(users, recipientId, NoUser)
         op == "sendNotificationToUser"
     IN
     IF user = NoUser
     THEN result' = Threw(op, caller, recipientId, "auth")
     ELSE IF recipient = NoUser
     THEN result' = Threw(op, caller, recipientId, "not found")
     ELSE \E outcome \in DeliveryOutcomes(recipientId) :
            LET called == <<[id |-> recipientId, outcome |-> outcome]>> IN
            IF outcome = Throw
            THEN result' = [Threw(op, caller, recipientId, "delivery")
                              EXCEPT !.attempts = called]
            ELSE result' = [Returned(op, caller, recipientId, outcome)
                              EXCEPT !.attempts = called]
  /\ UNCHANGED <<variant, client, calls, users, devices, compTok, paused>>

\* the test notification goes to the caller itself
sendTestNotification(caller) ==
  /\ variant = "user"
  /\ Idle
  /\ LET user == getCurrentUser(caller)
         op == "sendTestNotification"
     IN
     IF user = NoUser
     THEN result' = Threw(op, caller, None, "auth")
     ELSE \E outcome \in DeliveryOutcomes(user.id) :
            LET called == <<[id |-> user.id, outcome |-> outcome]>> IN
            IF outcome = Throw
            THEN result' = [Threw(op, caller, None, "delivery")
                              EXCEPT !.attempts = called]
            ELSE result' = [Returned(op, caller, None, outcome)
                              EXCEPT !.attempts = called]
  /\ UNCHANGED <<variant, client, calls, users, devices, compTok, paused>>

\* a query: without a user it answers at once, else it hands back the
\* component's getStatusForUser
getMyPushStatus(caller) ==
  /\ variant = "user"
  /\ Idle
  /\ LET user == getCurrentUser(caller) IN
     result' = IF user = NoUser
               THEN Returned("getMyPushStatus", caller, None, None)
               ELSE [Returned("getMyPushStatus", caller, None, None)
                       EXCEPT !.hasToken = compTok[user.id] # None,
                              !.paused = paused[user.id],
                              !.queried = TRUE]
  /\ UNCHANGED <<variant, client, calls, users, devices, compTok, paused>>

\* ------------------------------------------------------- the broadcast loop
\* the loop's running state: the two counters, the details array, and the
\* delivery calls made so far (recipient id and the component's answer)
NoAcc == [success |-> 0, failed |-> 0, details |-> <<>>, attempts |-> <<>>]

\* user variant, body of the try/catch: a notification id counts as success,
\* a null answer is recorded as no_token and counted nowhere, a raised error
\* is counted and recorded as failed
classifyUser(acc, id, outcome) ==
  IF outcome = Throw
  THEN [acc EXCEPT !.failed = @ + 1,
                   !.details = Append(@, Detail(id, "failed", None, "error"))]
  ELSE IF outcome # None
  THEN [acc EXCEPT !.success = @ + 1,
                   !.details = Append(@, Detail(id, "success", outcome, ""))]
  ELSE [acc EXCEPT !.details = Append(@, Detail(id, "no_token", None, ""))]

\* device variant, body of the try/catch: a null answer is recorded as failed
\* ("No notification ID returned") but failedCount is not incremented
classifyDevice(acc, id, outcome) ==
  IF outcome = Throw
  THEN [acc EXCEPT !.failed = @ + 1,
                   !.details = Append(@, Detail(id, "failed", None, "error"))]
  ELSE IF outcome # None
  THEN [acc EXCEPT !.success = @ + 1,
                   !.details = Append(@, Detail(id, "success", outcome, ""))]
  ELSE [acc EXCEPT !.details = Append(@, Detail(id, "failed", None, "no id"))]

\* the try body without `notificationId` in the entry it pushes
classifyNoId(kind, acc, id, outcome) ==
  LET r == IF kind = "device" THEN classifyDevice(acc, id, outcome)
           ELSE classifyUser(acc, id, outcome)
  IN [r EXCEPT !.details =
        [j \in 1..Len(@) |-> [@[j] EXCEPT !.notificationId = None]]]

classify(kind, acc, id, outcome) ==
  IF kind = "device" THEN classifyDevice(acc, id, outcome)
  ELSE classifyUser(acc, id, outcome)

\* the loop without its try/catch: the first raised error ends it
RECURSIVE sendLoopAbort(_, _, _, _)
sendLoopAbort(kind, recips, outs, acc) ==
  IF recips = <<>> THEN acc
  ELSE LET id == Head(recips).id
           called == [acc EXCEPT !.attempts =
                        Append(@, [id |-> id, outcome |-> Head(outs)])]
       IN IF Head(outs) = Throw THEN classify(kind, called, id, Head(outs))
          ELSE sendLoopAbort(kind, Tail(recips), Tail(outs),
                             classify(kind, called, id, Head(outs)))

\* for (const r of recips) { try { sendPushNotification ... } catch { ... } }
RECURSIVE sendLoop(_, _, _, _)
sendLoop(kind, recips, outs, acc) ==
  IF recips = <<>> THEN acc
  ELSE LET id == Head(recips).id
           called == [acc EXCEPT !.attempts =
                        Append(@, [id |-> id, outcome |-> Head(outs)])]
       IN sendLoop(kind, Tail(recips), Tail(outs),
                   classify(kind, called, id, Head(outs)))

\* the answer without the second loop: no entry for the ineligible
appendNone(details, recips, status) == details

\* for (const r of ineligible) details.push({id, status})
RECURSIVE appendAll(_, _, _)
appendAll(details, recips, status) ==
  IF recips = <<>> THEN details
  ELSE appendAll(Append(details, Detail(Head(recips).id, status, None, "")),
                 Tail(recips), status)

\* --------------------------------------------------- user variant broadcasts
\* the exclusion test that never excludes
excludedUserNever(user, excludeCurrentUser, currentUser) == FALSE

\* args.excludeCurrentUser && currentUser && user._id === currentUser._id
excludedUser(user, excludeCurrentUser, currentUser) ==
  excludeCurrentUser /\ currentUser # NoUser /\ user.id = currentUser.id

\* the first filter without its `return user.pushToken`
usersWithTokensAll(allUsers, excludeCurrentUser, currentUser) ==
  SelectSeq(allUsers, LAMBDA user :
    ~excludedUser(user, excludeCurrentUser, currentUser))

usersWithTokens(allUsers, excludeCurrentUser, currentUser) ==
  SelectSeq(allUsers, LAMBDA user :
    IF excludedUser(user, excludeCurrentUser, currentUser) THEN FALSE
    ELSE user.pushToken # None)

\* the second filter without its exclusion test
usersWithoutTokensAll(allUsers, excludeCurrentUser, currentUser) ==
  SelectSeq(allUsers, LAMBDA user : user.pushToken = None)

usersWithoutTokens(allUsers, excludeCurrentUser, currentUser) ==
  SelectSeq(allUsers, LAMBDA user :
    IF excludedUser(user, excludeCurrentUser, currentUser) THEN FALSE
    ELSE user.pushToken = None)

\* a default that asks for no identity unless requireAuth is given as true
requireAuthOnlyIfTrue(requireAuthArg) == requireAuthArg = "true"

\* const requireAuth = args.requireAuth !== false, for requireAuthArg "true",
\* "false" or "omitted"
requireAuthOf(requireAuthArg) == requireAuthArg # "false"

\* excludeCurrentUser omitted is falsy, the same as false; every answer the handler can give in the current state, one per sequence
\* of answers of the delivery component
broadcastAnswers(caller, excludeCurrentUser, requireAuthArg) ==
  LET requireAuth == requireAuthOf(requireAuthArg)
      currentUser == getCurrentUser(caller)
      senderId == currentUser.id
      op == "sendBroadcastNotification"
  IN
  IF requireAuth /\ currentUser = NoUser
  THEN {[Threw(op, caller, None, "auth")
           EXCEPT !.requireAuth = requireAuth,
                  !.excludeCurrentUser = excludeCurrentUser]}
  ELSE LET with == usersWithTokens(users, excludeCurrentUser, currentUser)
           without == usersWithoutTokens(users, excludeCurrentUser, currentUser)
       IN UNION {
            {[NoResult EXCEPT
                !.op = op, !.caller = caller,
                !.excludeCurrentUser = excludeCurrentUser,
                !.requireAuth = requireAuth, !.senderId = senderId,
                !.success = acc.success, !.failed = acc.failed,
                !.total = Len(with),
                !.details = appendAll(acc.details, without, "no_token"),
                !.attempts = acc.attempts]
               : acc \in {sendLoop("user", with, outs, NoAcc)}}
            : outs \in OutcomeSeqs(with)}

sendBroadcastNotification(caller, excludeCurrentUser, requireAuthArg) ==
  /\ variant = "user"
  /\ Idle
  /\ result' \in broadcastAnswers(caller, excludeCurrentUser, requireAuthArg)
  /\ UNCHANGED <<variant, client, calls, users, devices, compTok, paused>>

sendSystemBroadcast ==
  /\ variant = "user"
  /\ Idle
  /\ LET with == SelectSeq(users, LAMBDA user : user.pushToken # None)
         without == SelectSeq(users, LAMBDA user : user.pushToken = None)
     IN \E outs \in OutcomeSeqs(with) :
        \E acc \in {sendLoop("system", with, outs, NoAcc)} :
          result' = [NoResult EXCEPT
             !.op = "sendSystemBroadcast", !.requireAuth = FALSE,
             !.success = acc.success, !.failed = acc.failed,
             !.total = Len(with), !.totalUsers = Len(users),
             !.usersWithTokens = Len(with), !.usersWithoutTokens = Len(without),
             !.details = appendAll(acc.details, without, "no_token"),
             !.attempts = acc.attempts]
  /\ UNCHANGED <<variant, client, calls, users, devices, compTok, paused>>

\* ----------------------------------------------------------- device variant
\* a lookup that finds nothing
firstByTokenMiss(table, tok) == NoDevice

\* .query("devices").withIndex("pushToken", q => q.eq(...)).first()
firstByToken(table, tok) ==
  IF \E i \in 1..Len(table) : table[i].pushToken = tok
  THEN table[CHOOSE i \in 1..Len(table) :
               /\ table[i].pushToken = tok
               /\ \A j \in 1..(i - 1) : table[j].pushToken # tok]
  ELSE NoDevice

\* ctx.db.insert("devices", row): the new row goes last and gets a fresh id
newId(table) == Len(table) + 1

\* Date.now(): a clock that never runs backwards
Now(t) == \A i \in 1..Len(devices) : devices[i].lastSeen <= t

\* an insert that leaves the optional isActive out
newDeviceBare(deviceId, pushToken, t) ==
  [id |-> deviceId, pushToken |-> pushToken, isActive |-> FALSE,
   hasIsActive |-> FALSE, lastSeen |-> t]

\* a row as registerDevice inserts it: isActive is given, true
newDevice(deviceId, pushToken, t) ==
  [id |-> deviceId, pushToken |-> pushToken, isActive |-> TRUE,
   hasIsActive |-> TRUE, lastSeen |-> t]

\* the three readings of a row's optional isActive (hasIsActive: the field
\* is there; a row without it reads undefined, which is falsy)
\* device.isActive !== false
isActiveNotFalse(device) == ~(device.hasIsActive /\ ~device.isActive)

\* !device.isActive is false
isActiveTruthy(device) == device.hasIsActive /\ device.isActive

\* device.isActive ?? true
isActiveOrTrue(device) == IF device.hasIsActive THEN device.isActive ELSE TRUE

\* a patch of lastSeen that writes nothing
patchLastSeenNever(table, id, t) == table

\* ctx.db.patch(id, {lastSeen: Date.now()})
patchLastSeen(table, id, t) ==
  [i \in 1..Len(table) |->
     IF table[i].id = id THEN [table[i] EXCEPT !.lastSeen = t] ELSE table[i]]

\* ctx.db.patch(id, {lastSeen: Date.now(), isActive})
patchSeen(table, id, t, active) ==
  [i \in 1..Len(table) |->
     IF table[i].id = id
     THEN [table[i] EXCEPT !.lastSeen = t, !.isActive = active,
                           !.hasIsActive = TRUE]
     ELSE table[i]]

\* a patch that flips isActive instead of setting it
patchActiveToggle(table, id, active) ==
  [i \in 1..Len(table) |->
     IF table[i].id = id
     THEN [table[i] EXCEPT !.isActive = ~@, !.hasIsActive = TRUE]
     ELSE table[i]]

patchActive(table, id, active) ==
  [i \in 1..Len(table) |->
     IF table[i].id = id
     THEN [table[i] EXCEPT !.isActive = active, !.hasIsActive = TRUE]
     ELSE table[i]]

\* an existing row is patched (lastSeen, isActive) and its id returned at once;
\* only a new row's token is recorded with the delivery component
registerDevice(pushToken, t) ==
  /\ variant = "device"
  /\ Idle
  /\ Now(t)
  /\ LET existingDevice == firstByToken(devices, pushToken) IN
     IF existingDevice # NoDevice
     THEN /\ devices' = patchSeen(devices, existingDevice.id, t, TRUE)
          /\ compTok' = compTok
          /\ result' = Returned("registerDevice", None, pushToken,
                                existingDevice.id)
     ELSE /\ Len(devices) < MaxDevices
          /\ LET deviceId == newId(devices) IN
             /\ devices' = Append(devices, newDevice(deviceId, pushToken, t))
             /\ compTok' = recordToken(compTok, deviceId, pushToken)
             /\ result' = Returned("registerDevice", None, pushToken, deviceId)
  /\ UNCHANGED <<variant, client, calls, users, paused>>

removeDeviceToken(deviceId) ==
  /\ variant = "device"
  /\ Idle
  /\ LET device == Get(devices, deviceId, NoDevice) IN
     IF device = NoDevice
     THEN /\ result' = Threw("removeDeviceToken", None, deviceId, "not found")
          /\ UNCHANGED <<devices, compTok>>
     ELSE /\ compTok' = removeToken(compTok, deviceId)
          /\ devices' = patchActive(devices, deviceId, FALSE)
          /\ result' = [Returned("removeDeviceToken", None, deviceId, None)
                          EXCEPT !.registered = device.isActive]
  /\ UNCHANGED <<variant, client, calls, users, paused>>

\* sendNotificationToDevice without its `!device.isActive` test
sendNotificationToDeviceAnyState(deviceId, t) ==
  /\ variant = "device"
  /\ Idle
  /\ Now(t)
  /\ LET device == Get(devices, deviceId, NoDevice)
         op == "sendNotificationToDevice"
     IN
     IF device = NoDevice
     THEN /\ result' = Threw(op, None, deviceId, "not found")
          /\ UNCHANGED devices
     ELSE \E outcome \in DeliveryOutcomes(deviceId) :
            LET called == <<[id |-> deviceId, outcome |-> outcome]>> IN
            IF outcome = Throw
            THEN /\ result' = [Threw(op, None, deviceId, "delivery")
                                 EXCEPT !.attempts = called]
                 /\ UNCHANGED devices
            ELSE /\ devices' = patchLastSeen(devices, deviceId, t)
                 /\ result' = [Returned(op, None, deviceId, outcome)
                                 EXCEPT !.attempts = called, !.time = t]
  /\ UNCHANGED <<variant, client, calls, users, compTok, paused>>

\* a raised delivery error is not caught here: the mutation fails as a whole
sendNotificationToDevice(deviceId, t) ==
  /\ variant = "device"
  /\ Idle
  /\ Now(t)
  /\ LET device == Get(devices, deviceId, NoDevice)
         op == "sendNotificationToDevice"
     IN
     IF device = NoDevice
     THEN /\ result' = Threw(op, None, deviceId, "not found")
          /\ UNCHANGED devices
     ELSE IF ~isActiveTruthy(device)
     THEN /\ result' = Threw(op, None, deviceId, "not active")
          /\ UNCHANGED devices
     ELSE \E outcome \in DeliveryOutcomes(deviceId) :
            LET called == <<[id |-> deviceId, outcome |-> outcome]>> IN
            IF outcome = Throw
            THEN /\ result' = [Threw(op, None, deviceId, "delivery")
                                 EXCEPT !.attempts = called]
                 /\ UNCHANGED devices
            ELSE /\ devices' = patchLastSeen(devices, deviceId, t)
                 /\ result' = [Returned(op, None, deviceId, outcome)
                                 EXCEPT !.attempts = called, !.time = t]
  /\ UNCHANGED <<variant, client, calls, users, compTok, paused>>

\* the row is found by its token; whether it is active is not looked at
sendNotificationByToken(pushToken, t) ==
  /\ variant = "device"
  /\ Idle
  /\ Now(t)
  /\ LET device == firstByToken(devices, pushToken)
         op == "sendNotificationByToken"
     IN
     IF device = NoDevice
     THEN /\ result' = Threw(op, None, pushToken, "not found")
          /\ UNCHANGED devices
     ELSE \E outcome \in DeliveryOutcomes(device.id) :
            LET called == <<[id |-> device.id, outcome |-> outcome]>> IN
            IF outcome = Throw
            THEN /\ result' = [Threw(op, None, pushToken, "delivery")
                                 EXCEPT !.attempts = called]
                 /\ UNCHANGED devices
            ELSE /\ devices' = patchLastSeen(devices, device.id, t)
                 /\ result' = [Returned(op, None, pushToken, outcome)
                                 EXCEPT !.attempts = called, !.time = t]
  /\ UNCHANGED <<variant, client, calls, users, compTok, paused>>

\* the device variant's sendTestNotification: no isActive test, no lastSeen
sendTestNotificationDevice(deviceId) ==
  /\ variant = "device"
  /\ Idle
  /\ LET device == Get(devices, deviceId, NoDevice)
         op == "sendTestNotification"
     IN
     IF device = NoDevice
     THEN result' = Threw(op, None, deviceId, "not found")
     ELSE \E outcome \in DeliveryOutcomes(deviceId) :
            LET called == <<[id |-> deviceId, outcome |-> outcome]>> IN
            IF outcome = Throw
            THEN result' = [Threw(op, None, deviceId, "delivery")
                              EXCEPT !.attempts = called]
            ELSE result' = [Returned(op, None, deviceId, outcome)
                              EXCEPT !.attempts = called]
  /\ UNCHANGED <<variant, client, calls, users, devices, compTok, paused>>

\* getDevicePushStatus without its `if (!device)` answer
getDevicePushStatusAlwaysAsk(deviceId) ==
  /\ variant = "device"
  /\ Idle
  /\ LET device == Get(devices, deviceId, NoDevice) IN
     result' = [Returned("getDevicePushStatus", None, deviceId, None)
                  EXCEPT !.hasToken = compTok[deviceId] # None,
                         !.paused = paused[deviceId],
                         !.isActive = isActiveOrTrue(device),
                         !.queried = TRUE]
  /\ UNCHANGED <<variant, client, calls, users, devices, compTok, paused>>

getDevicePushStatus(deviceId) ==
  /\ variant = "device"
  /\ Idle
  /\ LET device == Get(devices, deviceId, NoDevice) IN
     result' = IF device = NoDevice
               THEN Returned("getDevicePushStatus", None, deviceId, None)
               ELSE [Returned("getDevicePushStatus", None, deviceId, None)
                       EXCEPT !.hasToken = compTok[deviceId] # None,
                              !.paused = paused[deviceId],
                              !.isActive = isActiveOrTrue(device),
                              !.queried = TRUE]
  /\ UNCHANGED <<variant, client, calls, users, devices, compTok, paused>>

\* ---------------------------------------- registerDevice, await by await
\* a client invokes registerDevice(pushToken)
registerDeviceCall(p, pushToken) ==
  /\ variant = "device"
  /\ calls[p].pc \in {"idle", "done"}
  /\ calls' = [calls EXCEPT ![p] = [NoCall EXCEPT !.pc = "lookup",
                                                  !.pushToken = pushToken]]
  /\ UNCHANGED <<variant, client, users, devices, compTok, paused, result>>

\* const existingDevice = await ctx.db.query("devices")...first()
registerDeviceLookup(p) ==
  /\ calls[p].pc = "lookup"
  /\ calls' = [calls EXCEPT ![p].pc = "write",
                            ![p].existingDevice =
                               firstByToken(devices, calls[p].pushToken)]
  /\ UNCHANGED <<variant, client, users, devices, compTok, paused, result>>

\* if (existingDevice) { patch; return } insert; recordToken; return
registerDeviceWrite(p, t) ==
  /\ calls[p].pc = "write"
  /\ Now(t)
  /\ LET existingDevice == calls[p].existingDevice IN
     IF existingDevice # NoDevice
     THEN /\ devices' = patchSeen(devices, existingDevice.id, t, TRUE)
          /\ compTok' = compTok
          /\ calls' = [calls EXCEPT ![p].pc = "done",
                                    ![p].ret = existingDevice.id]
     ELSE /\ Len(devices) < MaxDevices
          /\ LET deviceId == newId(devices) IN
             /\ devices' = Append(devices,
                  newDevice(deviceId, calls[p].pushToken, t))
             /\ compTok' = recordToken(compTok, deviceId, calls[p].pushToken)
             /\ calls' = [calls EXCEPT ![p].pc = "done", ![p].ret = deviceId]
  /\ UNCHANGED <<variant, client, users, paused, result>>

\* args.excludeDeviceId && device._id === args.excludeDeviceId
excludedDevice(device, excludeDeviceId) ==
  excludeDeviceId # None /\ device.id = excludeDeviceId

\* a filter that keeps every device but the excluded one, whatever isActive
activeDevicesAll(allDevices, excludeDeviceId) ==
  SelectSeq(allDevices, LAMBDA device :
    ~excludedDevice(device, excludeDeviceId))

activeDevices(allDevices, excludeDeviceId) ==
  SelectSeq(allDevices, LAMBDA device :
    IF excludedDevice(device, excludeDeviceId) THEN FALSE
    ELSE isActiveNotFalse(device))

inactiveDevices(allDevices, excludeDeviceId) ==
  SelectSeq(allDevices, LAMBDA device :
    IF excludedDevice(device, excludeDeviceId) THEN FALSE
    ELSE ~isActiveNotFalse(device))

\* a broadcast that deactivates every device whose delivery raised
sendBroadcastNotificationDeviceCleanup(excludeDeviceId) ==
  /\ variant = "device"
  /\ Idle
  /\ LET active == activeDevices(devices, excludeDeviceId)
         inactive == inactiveDevices(devices, excludeDeviceId)
     IN \E outs \in OutcomeSeqs(active) :
        \E acc \in {sendLoop("device", active, outs, NoAcc)} :
          /\ result' = [NoResult EXCEPT
               !.op = "sendBroadcastNotification",
               !.excludeDeviceId = excludeDeviceId,
               !.success = acc.success, !.failed = acc.failed,
               !.total = Len(active),
               !.details = appendAll(acc.details, inactive, "inactive"),
               !.attempts = acc.attempts]
          /\ devices' =
               [i \in 1..Len(devices) |->
                  IF \E k \in 1..Len(acc.attempts) :
                       /\ acc.attempts[k].id = devices[i].id
                       /\ acc.attempts[k].outcome = Throw
                  THEN [devices[i] EXCEPT !.isActive = FALSE]
                  ELSE devices[i]]
  /\ UNCHANGED <<variant, client, calls, users, compTok, paused>>

sendBroadcastNotificationDevice(excludeDeviceId) ==
  /\ variant = "device"
  /\ Idle
  /\ LET active == activeDevices(devices, excludeDeviceId)
         inactive == inactiveDevices(devices, excludeDeviceId)
     IN \E outs \in OutcomeSeqs(active) :
        \E acc \in {sendLoop("device", active, outs, NoAcc)} :
          result' = [NoResult EXCEPT
             !.op = "sendBroadcastNotification",
             !.excludeDeviceId = excludeDeviceId,
             !.success = acc.success, !.failed = acc.failed,
             !.total = Len(active),
             !.details = appendAll(acc.details, inactive, "inactive"),
             !.attempts = acc.attempts]
  /\ UNCHANGED <<variant, client, calls, users, devices, compTok, paused>>

\* --------------------------------------------------------------- the system
Init ==
  /\ variant \in {"user", "device"}
  /\ \E n \in 0..MaxUsers :
       users = IF variant = "user"
               THEN [i \in 1..n |-> [id |-> i, pushToken |-> None]]
               ELSE <<>>
  /\ devices = <<>>
  /\ compTok = [id \in UserIds \cup DeviceIds |-> None]
  /\ paused = [id \in UserIds \cup DeviceIds |-> FALSE]
  /\ calls = [p \in Procs |-> NoCall]
  /\ client = NoClient
  /\ result = NoResult

\* the handler's answer has gone back to the caller; the backend waits for
\* the next invocation
nextCall ==
  /\ result.op # "none"
  /\ result' = NoResult
  /\ UNCHANGED <<variant, client, calls, users, devices, compTok, paused>>


\* a handler starts only when none is running; Idle is tested before the
\* inputs are drawn
Next ==
  \/ Idle /\ \E caller \in Callers, token \in Tokens :
               recordPushToken(caller, token)
  \/ Idle /\ \E caller \in Callers : removePushToken(caller)
  \/ Idle /\ \E caller \in Callers : pauseMyNotifications(caller)
  \/ Idle /\ \E caller \in Callers : resumeMyNotifications(caller)
  \/ Idle /\ \E caller \in Callers, excl \in BOOLEAN,
        req \in {"true", "false", "omitted"} :
       sendBroadcastNotification(caller, excl, req)
  \/ Idle /\ sendSystemBroadcast
  \/ Idle /\ \E caller \in Callers, r \in UserIds :
               sendNotificationToUser(caller, r)
  \/ Idle /\ \E caller \in Callers : sendTestNotification(caller)
  \/ Idle /\ \E caller \in Callers : getMyPushStatus(caller)
  \/ Idle /\ \E caller \in Callers : signOut(caller)
  \/ Idle /\ \E tok \in Tokens, t \in Times : registerDevice(tok, t)
  \/ Idle /\ \E d \in DeviceIds : removeDeviceToken(d)
  \/ Idle /\ \E d \in DeviceIds, t \in Times : sendNotificationToDevice(d, t)
  \/ Idle /\ \E tok \in Tokens, t \in Times : sendNotificationByToken(tok, t)
  \/ Idle /\ \E d \in DeviceIds : sendTestNotificationDevice(d)
  \/ Idle /\ \E d \in DeviceIds : getDevicePushStatus(d)
  \/ Idle /\ \E d \in DeviceIds \cup {None} :
               sendBroadcastNotificationDevice(d)
  \/ nextCall

Spec == Init /\ [][Next]_vars

\* the device deployment with overlapping registerDevice invocations: each
\* await of the handler is a step of its own, every store operation is atomic
InitConc == Init /\ variant = "device"

NextConc ==
  \/ \E p \in Procs, tok \in Tokens : registerDeviceCall(p, tok)
  \/ \E p \in Procs : registerDeviceLookup(p)
  \/ \E p \in Procs, t \in Times : registerDeviceWrite(p, t)
  \/ \E d \in DeviceIds : removeDeviceToken(d)
  \/ nextCall

SpecConc == InitConc /\ [][NextConc]_vars

\* ------------------------------------------------- the broadcast data object
\* The data object of a broadcast is a function of args.data, the sender and
\* the clock alone. Init draws those, in a deployment where every recipient
\* has registered token 1; each action builds the object one of the three
\* broadcasts hands to sendPushNotification.
InitPayload ==
  /\ variant \in {"user", "device"}
  /\ users = IF variant = "user"
             THEN [i \in 1..MaxUsers |-> [id |-> i, pushToken |-> 1]]
             ELSE <<>>
  /\ devices = IF variant = "device"
               THEN <<newDevice(1, 1, 0)>>
               ELSE <<>>
  /\ compTok = [id \in UserIds \cup DeviceIds |->
                 IF variant = "user" \/ id = 1 THEN 1 ELSE None]
  /\ paused = [id \in UserIds \cup DeviceIds |-> FALSE]
  /\ calls = [p \in Procs |-> NoCall]
  /\ client = NoClient
  /\ \E data \in DataObjects, senderId \in UserIds \cup {None},
        t \in Times, requireAuth \in BOOLEAN :
       /\ requireAuth => senderId # None
       /\ variant = "device" => (senderId = None /\ ~requireAuth)
       /\ result = [NoResult EXCEPT !.data = data, !.senderId = senderId,
                                    !.time = t, !.requireAuth = requireAuth]

userBroadcastPayload ==
  /\ variant = "user"
  /\ Idle
  /\ result' = [result EXCEPT
       !.op = "sendBroadcastNotification",
       !.payload = userBroadcastData(result.data, result.senderId, result.time)]
  /\ UNCHANGED <<variant, client, calls, users, devices, compTok, paused>>

systemBroadcastPayload ==
  /\ variant = "user"
  /\ Idle
  /\ result.senderId = None
  /\ result' = [result EXCEPT
       !.op = "sendSystemBroadcast",
       !.payload = systemBroadcastData(result.data, result.time)]
  /\ UNCHANGED <<variant, client, calls, users, devices, compTok, paused>>

deviceBroadcastPayload ==
  /\ variant = "device"
  /\ Idle
  /\ result' = [result EXCEPT
       !.op = "sendBroadcastNotification",
       !.payload = deviceBroadcastData(result.data, result.time)]
  /\ UNCHANGED <<variant, client, calls, users, devices, compTok, paused>>

NextPayload ==
  \/ userBroadcastPayload
  \/ systemBroadcastPayload
  \/ deviceBroadcastPayload

SpecPayload == InitPayload /\ [][NextPayload]_vars

\* ----------------------------------------- the usePushNotifications hook
\* One phone running the setup component. In the user variant it is signed
\* in as user Me; getExpoPushTokenAsync hands it the token MyToken. The hook's
\* async functions run from one await to the next as one step each; calls[p]
\* holds where an invocation stands and what it returned.
Me == 1
MyToken == 1

PermissionStatuses == {"undetermined", "granted", "denied"}

\* currentUser?.pushToken of the getCurrentUserWithToken subscription
currentUserPushToken == Get(users, Me, NoUser).pushToken

isRegistered ==
  IF variant = "user"
  THEN currentUserPushToken # None /\ client.expoPushToken # None
  ELSE client.deviceId # None /\ client.expoPushToken # None

\* the invocation p waits at an await of registerForPushNotifications
at(p, pc) == [calls EXCEPT ![p] = [NoCall EXCEPT !.pc = pc]]

\* the invocation p has returned ret to its caller
returned(p, ret) ==
  [calls EXCEPT ![p] = [NoCall EXCEPT !.pc = "done", !.ret = ret]]

\* catch: setError(errorMessage); return null; finally: setIsLoading(false)
caught(p) ==
  /\ client' = [client EXCEPT !.error = TRUE, !.isLoading = FALSE]
  /\ calls' = returned(p, None)

\* an effect of the hook has its condition met and has not run yet; effects
\* run after the render that met their condition, before the next press
effectPending ==
  \/ /\ variant = "user"
     /\ currentUserPushToken # None
     /\ client.expoPushToken = None
  \/ /\ variant = "device"
     /\ client.expoPushToken # None
     /\ client.deviceId = None
     /\ firstByToken(devices, client.expoPushToken) # NoDevice

\* The register button is rendered while !isRegistered and is disabled while
\* isLoading. A press runs registerForPushNotifications up to its first
\* await, or to its return when it fails before any await.
handleRegister(p, isDevice, projectId) ==
  /\ ~effectPending
  /\ ~isRegistered
  /\ ~client.isLoading
  /\ calls[p].pc \in {"idle", "done"}
  /\ IF ~isDevice
     THEN caught(p)
     ELSE IF client.permission # "granted"
     THEN /\ client' = [client EXCEPT !.isLoading = TRUE, !.error = FALSE]
          /\ calls' = at(p, "requestPermissions")
     ELSE IF ~projectId
     THEN caught(p)
     ELSE /\ client' = [client EXCEPT !.isLoading = TRUE, !.error = FALSE]
          /\ calls' = at(p, "getExpoPushToken")
  /\ UNCHANGED <<variant, users, devices, compTok, paused, result>>

\* what requestPermissions leaves in isLoading when it returns: the user
\* variant's has its own finally { setIsLoading(false) }, the device
\* variant's does not touch the flag
loadingAfterRequest == IF variant = "user" THEN FALSE ELSE client.isLoading

\* Notifications.requestPermissionsAsync() answers, requestPermissions
\* returns, and registerForPushNotifications goes on to its next await or
\* returns null
requestPermissions(p, answer) ==
  /\ calls[p].pc = "requestPermissions"
  /\ IF answer = "granted"
     THEN /\ client' = [client EXCEPT !.permission = "granted",
                                      !.isLoading = loadingAfterRequest]
          /\ calls' = at(p, "getPermissions")
     ELSE IF answer = "denied"
     THEN /\ client' = [client EXCEPT !.permission = "denied",
                                      !.error = (variant = "user"),
                                      !.isLoading = FALSE]
          /\ calls' = returned(p, None)
     ELSE caught(p)
  /\ UNCHANGED <<variant, users, devices, compTok, paused, result>>

\* Notifications.getPermissionsAsync() answers; then the project id is read
getPermissions(p, ok, projectId) ==
  /\ calls[p].pc = "getPermissions"
  /\ IF ok /\ projectId
     THEN /\ calls' = at(p, "getExpoPushToken")
          /\ client' = client
     ELSE caught(p)
  /\ UNCHANGED <<variant, users, devices, compTok, paused, result>>

\* Notifications.getExpoPushTokenAsync() answers: setExpoPushToken(pushToken),
\* and the backend mutation is sent
getExpoPushToken(p, ok) ==
  /\ calls[p].pc = "getExpoPushToken"
  /\ IF ok
     THEN /\ client' = [client EXCEPT !.expoPushToken = MyToken]
          /\ calls' = at(p, "register")
     ELSE caught(p)
  /\ UNCHANGED <<variant, users, devices, compTok, paused, result>>

\* The backend mutation answers. ok: recordPushToken / registerDevice ran as
\* a whole; otherwise it raised and committed nothing.
registerAnswered(p, ok, t) ==
  /\ calls[p].pc = "register"
  /\ Now(t)
  /\ IF ~ok
     THEN /\ caught(p)
          /\ UNCHANGED <<users, devices, compTok>>
     ELSE IF variant = "user"
     THEN /\ compTok' = recordToken(compTok, Me, MyToken)
          /\ users' = PatchToken(users, Me, MyToken)
          /\ devices' = devices
          /\ client' = [client EXCEPT !.isLoading = FALSE]
          /\ calls' = returned(p, MyToken)
     ELSE LET existingDevice == firstByToken(devices, MyToken)
              newDeviceId == IF existingDevice # NoDevice
                             THEN existingDevice.id ELSE newId(devices)
          IN
          /\ existingDevice = NoDevice => Len(devices) < MaxDevices
          /\ devices' = IF existingDevice # NoDevice
                        THEN patchSeen(devices, existingDevice.id, t, TRUE)
                        ELSE Append(devices, newDevice(newDeviceId, MyToken, t))
          /\ compTok' = IF existingDevice # NoDevice
                        THEN compTok
                        ELSE recordToken(compTok, newDeviceId, MyToken)
          /\ users' = users
          /\ client' = [client EXCEPT !.deviceId = newDeviceId,
                                      !.isLoading = FALSE]
          /\ calls' = returned(p, MyToken)
  /\ UNCHANGED <<variant, paused, result>>

\* effect of the user variant: the user's record holds a token and the hook
\* holds none
autoSetToken ==
  /\ variant = "user"
  /\ effectPending
  /\ client' = [client EXCEPT !.expoPushToken = currentUserPushToken]
  /\ UNCHANGED <<variant, users, devices, compTok, paused, calls, result>>

\* effect of the device variant: a row of allDevices holds the hook's token
\* and the hook holds no device id
autoSetDeviceId ==
  /\ variant = "device"
  /\ effectPending
  /\ LET currentDevice == firstByToken(devices, client.expoPushToken) IN
     /\ client' = [client EXCEPT !.deviceId = currentDevice.id]
  /\ UNCHANGED <<variant, users, devices, compTok, paused, calls, result>>

\* The test button of the user variant's component is rendered while
\* isRegistered and is disabled while isLoading. A press runs
\* handleTestNotification into the hook's handleSendTestNotification, up to
\* its await of the sendTestNotification mutation.
handleTestNotification(p) ==
  /\ variant = "user"
  /\ ~effectPending
  /\ isRegistered
  /\ ~client.isLoading
  /\ calls[p].pc \in {"idle", "done"}
  /\ client' = [client EXCEPT !.isLoading = TRUE, !.error = FALSE,
                              !.alert = "none", !.sent = FALSE]
  /\ calls' = at(p, "sendTestNotification")
  /\ UNCHANGED <<variant, users, devices, compTok, paused, result>>

\* whether handleSendTestNotification rejects when the mutation raised: its
\* catch block sets the error and ends, nothing is thrown again
rethrows(raised) == FALSE

\* The sendTestNotification mutation answers (it raises when the delivery
\* component does), handleSendTestNotification settles, and
\* handleTestNotification shows its alert.
handleSendTestNotification(p, outcome) ==
  /\ calls[p].pc = "sendTestNotification"
  /\ LET raised == outcome = Throw IN
     client' = [client EXCEPT
       !.isLoading = FALSE,
       !.error = raised,
       !.sent = ~raised,
       !.alert = IF rethrows(raised) THEN "Error" ELSE "Success"]
  /\ calls' = returned(p, None)
  /\ UNCHANGED <<variant, users, devices, compTok, paused, result>>

\* The phone starts with the permission status its mount effect read; the
\* backend may already hold a registration of this phone from an earlier
\* session.
InitClient ==
  /\ variant \in {"user", "device"}
  /\ \E tok \in {None, MyToken} :
       /\ users = IF variant = "user"
                  THEN <<[id |-> Me, pushToken |-> tok]>>
                  ELSE <<>>
       /\ devices = IF variant = "device" /\ tok # None
                    THEN <<newDevice(1, tok, 0)>>
                    ELSE <<>>
       /\ compTok = [id \in UserIds \cup DeviceIds |->
                      IF id = 1 THEN tok ELSE None]
  /\ paused = [id \in UserIds \cup DeviceIds |-> FALSE]
  /\ calls = [p \in Procs |-> NoCall]
  /\ \E status \in PermissionStatuses :
       client = [NoClient EXCEPT !.permission = status]
  /\ result = NoResult

NextClient ==
  \/ \E p \in Procs, isDevice \in BOOLEAN, projectId \in BOOLEAN :
       handleRegister(p, isDevice, projectId)
  \/ \E p \in Procs, answer \in PermissionStatuses \cup {"throw"} :
       requestPermissions(p, answer)
  \/ \E p \in Procs, ok \in BOOLEAN, projectId \in BOOLEAN :
       getPermissions(p, ok, projectId)
  \/ \E p \in Procs, ok \in BOOLEAN : getExpoPushToken(p, ok)
  \/ \E p \in Procs, ok \in BOOLEAN, t \in Times : registerAnswered(p, ok, t)
  \/ autoSetToken
  \/ autoSetDeviceId
  \/ \E p \in Procs : handleTestNotification(p)
  \/ \E p \in Procs, outcome \in DeliveryOutcomes(Me) :
       handleSendTestNotification(p, outcome)

SpecClient == InitClient /\ [][NextClient]_vars

\* =================================================================== claims
\* what the claims read off the last answer
IsBroadcast ==
  /\ result.op \in {"sendBroadcastNotification", "sendSystemBroadcast"}
  /\ result.ok

\* the recipient table the broadcast enumerated (a broadcast changes no row)
Rows == IF variant = "user" THEN users ELSE devices

\* the recipient the call asked to leave out, or None
ExcludedId ==
  IF variant = "user"
  THEN (IF result.excludeCurrentUser THEN result.caller ELSE None)
  ELSE result.excludeDeviceId

Ineligible(row) ==
  IF variant = "user" THEN row.pushToken = None ELSE ~row.isActive

EligibleRows ==
  SelectSeq(Rows, LAMBDA row : row.id # ExcludedId /\ ~Ineligible(row))

CountStatus(status) ==
  Cardinality({i \in 1..Len(result.details) : result.details[i].status = status})

DetailsOf(id) ==
  {i \in 1..Len(result.details) : result.details[i].id = id}

\* C1: in every broadcast answer the counters satisfy success + failed = total.
C1_CountersSumToTotal ==
  IsBroadcast => result.success + result.failed = result.total

\* C2 as stated: the details list has exactly one entry per row of the
\* recipient table, with or without an exclusion, and every ineligible row is
\* listed as no_token or inactive.
C2_DetailsCoverAllRows ==
  IsBroadcast =>
    /\ Len(result.details) = Len(Rows)
    /\ \A i \in 1..Len(Rows) :
         /\ Cardinality(DetailsOf(Rows[i].id)) = 1
         /\ Ineligible(Rows[i]) =>
              \A j \in DetailsOf(Rows[i].id) :
                result.details[j].status \in {"no_token", "inactive"}

\* C2 amended: the details list has exactly one entry per row other than the
\* excluded recipient, which has none; its length is the number of those rows;
\* every ineligible row among them is listed as no_token or inactive.
C2_DetailsCoverNonExcluded ==
  IsBroadcast =>
    /\ Len(result.details) =
         Cardinality({i \in 1..Len(Rows) : Rows[i].id # ExcludedId})
    /\ \A i \in 1..Len(Rows) :
         /\ Cardinality(DetailsOf(Rows[i].id)) =
              (IF Rows[i].id = ExcludedId THEN 0 ELSE 1)
         /\ Ineligible(Rows[i]) =>
              \A j \in DetailsOf(Rows[i].id) :
                result.details[j].status \in {"no_token", "inactive"}

\* a broadcast that left out its caller, who has no token, next to one user
\* that was delivered to and one listed as no_token
C2_Witness ==
  /\ IsBroadcast /\ variant = "user"
  /\ ExcludedId # None
  /\ Get(users, ExcludedId, NoUser).pushToken = None
  /\ Len(result.details) = Len(users) - 1
  /\ CountStatus("success") >= 1
  /\ \E i \in 1..Len(users) :
       users[i].pushToken = None /\ DetailsOf(users[i].id) # {}

\* C3: the counters agree with the details list: failed is the number of
\* entries with status failed, success the number with status success.
C3_CountersMatchDetails ==
  IsBroadcast =>
    /\ result.failed = CountStatus("failed")
    /\ result.success = CountStatus("success")

\* C4: a raised delivery error never ends the loop: the eligible recipients
\* are attempted once each, in table order, whatever the earlier answers;
\* each raising recipient is listed as failed with an error message and
\* counted; no per-recipient error escapes the call.
C4_ContinueOnError ==
  result.op \in {"sendBroadcastNotification", "sendSystemBroadcast"} =>
    /\ result.ok \/ (result.error = "auth" /\ result.attempts = <<>>)
    /\ result.ok =>
         /\ Ids(result.attempts) = Ids(EligibleRows)
         /\ \A i \in 1..Len(result.attempts) :
              result.attempts[i].outcome = Throw =>
                /\ result.details[i].id = result.attempts[i].id
                /\ result.details[i].status = "failed"
                /\ result.details[i].error # ""
         /\ result.failed =
              Cardinality({i \in 1..Len(result.attempts) :
                             result.attempts[i].outcome = Throw})

\* the first delivery raised and the next recipient was still delivered to
C4_Witness ==
  /\ IsBroadcast
  /\ Len(result.attempts) >= 2
  /\ result.attempts[1].outcome = Throw
  /\ result.attempts[2].outcome \in NotifIds
  /\ result.details[2].status = "success"
  /\ result.failed = 1

NoDuplicateTokens(table) ==
  \A i, j \in 1..Len(table) :
    i # j => table[i].pushToken # table[j].pushToken

\* C5: after every successful registerDevice(pushToken) the returned device
\* row is active and the delivery component holds pushToken for the returned
\* id (getDevicePushStatus would report hasToken true).
C5_RegisteredDeviceHoldsToken ==
  (result.op = "registerDevice" /\ result.ok) =>
    /\ Get(devices, result.ret, NoDevice).isActive
    /\ compTok[result.ret] = result.arg

\* C6: registerDevice is idempotent on the token when calls run one after the
\* other: a call with a token some row already has returns that row's id and
\* adds no row, a call with a new token adds exactly one row with it, rows
\* keep their id and token for ever, and no two rows share a token.
C6_RegisterIdempotent ==
  [][ /\ NoDuplicateTokens(devices')
      /\ \A i \in 1..Len(devices) :
           /\ Len(devices') >= Len(devices)
           /\ devices'[i].id = devices[i].id
           /\ devices'[i].pushToken = devices[i].pushToken
      /\ (result'.op = "registerDevice" /\ result.op = "none") =>
           IF \E i \in 1..Len(devices) : devices[i].pushToken = result'.arg
           THEN /\ Len(devices') = Len(devices)
                /\ Get(devices, result'.ret, NoDevice).pushToken = result'.arg
           ELSE /\ Len(devices') = Len(devices) + 1
                /\ devices'[Len(devices')].pushToken = result'.arg
                /\ devices'[Len(devices')].id = result'.ret
    ]_vars

\* a second registerDevice with the token of the first of two rows returned
\* the first row's id
C6_Witness ==
  /\ result.op = "registerDevice" /\ result.ok
  /\ Len(devices) = 2
  /\ result.ret = devices[1].id
  /\ devices[1].pushToken = result.arg

C8_TokenStoredInBothPlaces ==
  [][ variant = "user" =>
        /\ \A i \in 1..Len(users') :
             compTok'[users'[i].id] = users'[i].pushToken
        /\ ~result'.ok => (users' = users /\ compTok' = compTok)
    ]_vars

\* a user replaced a recorded token by another one, now held in both places
C8_Witness ==
  /\ variant = "user"
  /\ result.op = "recordPushToken" /\ result.ok
  /\ result.arg = 2
  /\ Get(users, result.caller, NoUser).pushToken = 2
  /\ compTok[result.caller] = 2
  /\ \E i \in 1..Len(users) :
       users[i].id # result.caller /\ users[i].pushToken = 1

\* C9: in a broadcast with an exclusion the excluded recipient is not passed
\* to the delivery component, has no details entry with status success or
\* failed, and is not counted in total.
C9_ExcludedNeverAttempted ==
  (IsBroadcast /\ ExcludedId # None) =>
    /\ \A i \in 1..Len(result.attempts) : result.attempts[i].id # ExcludedId
    /\ \A j \in DetailsOf(ExcludedId) :
         result.details[j].status \notin {"success", "failed"}
    /\ result.total = Len(EligibleRows)

\* the excluded recipient has a token (or is active) and would have been
\* attempted; another recipient was attempted
C9_Witness ==
  /\ IsBroadcast /\ ExcludedId # None
  /\ \E i \in 1..Len(Rows) : Rows[i].id = ExcludedId /\ ~Ineligible(Rows[i])
  /\ result.total >= 1
  /\ DetailsOf(ExcludedId) = {}

\* C10 as stated: in a user-variant broadcast a user with no pushToken is not
\* passed to the delivery component, counts in neither counter nor in total,
\* has no entry with status success or failed, and has a no_token entry.
C10_NoTokenUserListed ==
  (IsBroadcast /\ variant = "user") =>
    /\ result.success + result.failed <= Len(result.attempts)
    /\ result.total = Len(result.attempts)
    /\ \A i \in 1..Len(users) :
         users[i].pushToken = None =>
           /\ \A k \in 1..Len(result.attempts) :
                result.attempts[k].id # users[i].id
           /\ \A j \in DetailsOf(users[i].id) :
                result.details[j].status = "no_token"
           /\ DetailsOf(users[i].id) # {}

\* C10 amended: the same, except that the caller left out by
\* excludeCurrentUser has no details entry at all.
C10_NoTokenUserListedUnlessExcluded ==
  (IsBroadcast /\ variant = "user") =>
    /\ result.success + result.failed <= Len(result.attempts)
    /\ result.total = Len(result.attempts)
    /\ \A i \in 1..Len(users) :
         users[i].pushToken = None =>
           /\ \A k \in 1..Len(result.attempts) :
                result.attempts[k].id # users[i].id
           /\ \A j \in DetailsOf(users[i].id) :
                result.details[j].status = "no_token"
           /\ (DetailsOf(users[i].id) = {}) = (users[i].id = ExcludedId)

\* a system broadcast over a table with a user without a token, listed as
\* no_token, next to a user with one
C10_Witness ==
  /\ result.op = "sendSystemBroadcast" /\ result.ok
  /\ result.total >= 1
  /\ \E i \in 1..Len(users) :
       /\ users[i].pushToken = None
       /\ \E j \in DetailsOf(users[i].id) : result.details[j].status = "no_token"

\* C11: in every broadcast, each recipient for which the delivery component
\* answered a notification id is listed once, with status success and exactly
\* that id, and the success counter is the number of such answers; without an
\* exclusion every recipient holding a token (every active device) is asked.
C11_IdMeansSuccess ==
  IsBroadcast =>
    /\ \A i \in 1..Len(result.attempts) :
         result.attempts[i].outcome \in NotifIds =>
           /\ result.details[i] =
                Detail(result.attempts[i].id, "success",
                       result.attempts[i].outcome, "")
           /\ DetailsOf(result.attempts[i].id) = {i}
    /\ result.success =
         Cardinality({i \in 1..Len(result.attempts) :
                        result.attempts[i].outcome \in NotifIds})
    /\ ExcludedId = None => Ids(result.attempts) = Ids(EligibleRows)

\* a registered device, a broadcast without exclusion, the component answers
\* an id: the device is listed as success with that id
C11_Witness ==
  /\ variant = "device" /\ IsBroadcast /\ ExcludedId = None
  /\ result.success >= 1
  /\ \E i \in 1..Len(devices) :
       /\ devices[i].isActive /\ compTok[devices[i].id] = devices[i].pushToken
       /\ \E j \in DetailsOf(devices[i].id) :
            /\ result.details[j].status = "success"
            /\ result.details[j].notificationId \in NotifIds

\* the user-variant operations that ask for an identity proof
NeedsAuth ==
  \/ result.op \in {"recordPushToken", "removePushToken",
                    "sendNotificationToUser", "sendTestNotification",
                    "pauseMyNotifications", "resumeMyNotifications"}
  \/ result.op = "sendBroadcastNotification" /\ result.requireAuth

\* C12: in the user variant each operation that asks for an identity proof,
\* called without an authenticated user, fails with the authentication error
\* having asked for no delivery, and the step leaves the users table and the
\* component's tokens and pause flags as they were.
C12_UnauthenticatedFails ==
  [][(variant = "user" /\ result'.caller = None /\ NeedsAuth')
       => /\ ~result'.ok
          /\ result'.error = "auth"
          /\ result'.attempts = <<>>
          /\ users' = users /\ compTok' = compTok /\ paused' = paused]_vars

\* an unauthenticated sendNotificationToUser aimed at a user whose token the
\* component holds has failed
C12_Witness ==
  /\ variant = "user"
  /\ result.op = "sendNotificationToUser" /\ result.caller = None
  /\ ~result.ok
  /\ result.arg \in UserIds /\ compTok[result.arg] # None

\* C13: in the user variant no operation asks the delivery component for a
\* delivery when there is no authenticated caller (sendSystemBroadcast never
\* looks at the identity, so its answers carry no caller).
C13_NoDeliveryUnauthenticated ==
  (variant = "user" /\ result.caller = None) => result.attempts = <<>>

\* the single-recipient send that has just answered named a recipient that
\* resolves to no row of the table it was looked up in
Unresolved ==
  \/ /\ variant = "user" /\ result'.op = "sendNotificationToUser"
     /\ result'.caller # None
     /\ \A i \in 1..Len(users) : users[i].id # result'.arg
  \/ /\ variant = "device"
     /\ result'.op \in {"sendNotificationToDevice", "sendTestNotification"}
     /\ \A i \in 1..Len(devices) : devices[i].id # result'.arg
  \/ /\ variant = "device" /\ result'.op = "sendNotificationByToken"
     /\ \A i \in 1..Len(devices) : devices[i].pushToken # result'.arg

\* C14: a single-recipient send whose recipient id (or token) resolves to no
\* row fails with the not-found error, asks for no delivery, and the step
\* changes no table and nothing in the delivery component.
C14_UnknownRecipientFails ==
  [][Unresolved
       => /\ ~result'.ok
          /\ result'.error = "not found"
          /\ result'.attempts = <<>>
          /\ users' = users /\ devices' = devices
          /\ compTok' = compTok /\ paused' = paused]_vars

\* a send by a token no device holds, while another device is registered
C14_Witness ==
  /\ variant = "device"
  /\ result.op = "sendNotificationByToken" /\ result.error = "not found"
  /\ \A i \in 1..Len(devices) : devices[i].pushToken # result.arg
  /\ \E i \in 1..Len(devices) :
       devices[i].isActive /\ compTok[devices[i].id] # None

\* C15: in the device variant sendNotificationToDevice on a device whose row
\* is marked inactive fails with the not-active error, asks for no delivery,
\* and the step leaves every device row (lastSeen included) and the delivery
\* component as they were.
C15_InactiveDeviceSendFails ==
  [][(/\ variant = "device"
      /\ result'.op = "sendNotificationToDevice"
      /\ \E i \in 1..Len(devices) :
           devices[i].id = result'.arg /\ ~devices[i].isActive)
       => /\ ~result'.ok
          /\ result'.error = "not active"
          /\ result'.attempts = <<>>
          /\ devices' = devices
          /\ compTok' = compTok /\ paused' = paused]_vars

\* the send was refused for a device that removeDeviceToken had deactivated,
\* at a time later than the device's lastSeen
C15_Witness ==
  /\ variant = "device"
  /\ result.op = "sendNotificationToDevice" /\ result.error = "not active"
  /\ \E i \in 1..Len(devices) :
       /\ devices[i].id = result.arg
       /\ ~devices[i].isActive /\ compTok[devices[i].id] = None
       /\ devices[i].lastSeen < MaxTime

\* C16: in the device variant, whenever sendNotificationToDevice returns (an
\* id or null), the addressed row's lastSeen has become the time of the send,
\* that row's other fields and all other rows are as before, and the delivery
\* component's tokens are as before.
C16_SendUpdatesLastSeen ==
  [][(/\ variant = "device"
      /\ result'.op = "sendNotificationToDevice"
      /\ result'.ok)
       => /\ \E i \in 1..Len(devices) : devices[i].id = result'.arg
          /\ Len(devices') = Len(devices)
          /\ \A i \in 1..Len(devices) :
               devices'[i] =
                 IF devices[i].id = result'.arg
                 THEN [devices[i] EXCEPT !.lastSeen = result'.time]
                 ELSE devices[i]
          /\ compTok' = compTok /\ paused' = paused]_vars

\* a send that returned null, at the latest time, to the first of two devices
C16_Witness ==
  /\ variant = "device"
  /\ result.op = "sendNotificationToDevice" /\ result.ok
  /\ result.ret = None /\ result.time = MaxTime
  /\ Len(devices) = 2 /\ result.arg = devices[1].id
  /\ devices[1].lastSeen = MaxTime
  /\ devices[2].lastSeen < MaxTime

\* the status query that has just answered had no recipient to ask about: no
\* authenticated user, or a device id with no row
StatusOfNobody ==
  \/ /\ variant = "user" /\ result'.op = "getMyPushStatus"
     /\ result'.caller = None
  \/ /\ variant = "device" /\ result'.op = "getDevicePushStatus"
     /\ \A i \in 1..Len(devices) : devices[i].id # result'.arg

\* C17: getMyPushStatus without an authenticated user answers
\* {hasToken: false, paused: false}, getDevicePushStatus for an id with no
\* row answers {hasToken: false, paused: false, isActive: false}; neither
\* fails, asks the delivery component, or changes any state.
C17_StatusOfMissingRecipient ==
  [][StatusOfNobody
       => /\ result'.ok
          /\ ~result'.hasToken /\ ~result'.paused /\ ~result'.isActive
          /\ ~result'.queried
          /\ users' = users /\ devices' = devices
          /\ compTok' = compTok /\ paused' = paused]_vars

\* the status of a device id without a row was asked while another device is
\* registered and holds a token
C17_Witness ==
  /\ variant = "device"
  /\ result.op = "getDevicePushStatus" /\ result.ok /\ ~result.queried
  /\ \A i \in 1..Len(devices) : devices[i].id # result.arg
  /\ \E i \in 1..Len(devices) : compTok[devices[i].id] # None

\* the recipient a removal that has just answered was about, or None: the
\* device named by removeDeviceToken, the caller of removePushToken
Removed ==
  IF variant = "device" /\ result'.op = "removeDeviceToken"
       /\ (\E i \in 1..Len(devices) : devices[i].id = result'.arg)
  THEN result'.arg
  ELSE IF variant = "user" /\ result'.op = "removePushToken"
  THEN result'.caller
  ELSE None

\* a row after a removal: no token on a user, isActive false on a device
Unregistered(row) ==
  IF variant = "user" THEN [row EXCEPT !.pushToken = None]
  ELSE [row EXCEPT !.isActive = FALSE]

\* C18: removing the token of an existing device, or of the authenticated
\* caller, succeeds whatever the state; afterwards that row is unregistered
\* and the component holds no token for it, nothing else has changed; so a
\* removal applied to the state a removal left changes nothing.
C18_RemovalIdempotent ==
  [][Removed # None
       => /\ result'.ok
          /\ Len(Rows') = Len(Rows)
          /\ \A i \in 1..Len(Rows) :
               Rows'[i] = IF Rows[i].id = Removed THEN Unregistered(Rows[i])
                          ELSE Rows[i]
          /\ compTok' = [compTok EXCEPT ![Removed] = None]
          /\ paused' = paused
          /\ (/\ compTok[Removed] = None
              /\ \A i \in 1..Len(Rows) :
                   Rows[i].id = Removed => Rows[i] = Unregistered(Rows[i]))
             => (Rows' = Rows /\ compTok' = compTok)]_vars

\* removeDeviceToken has answered for a device it found already inactive,
\* next to a device that is still registered
C18_Witness ==
  /\ variant = "device"
  /\ result.op = "removeDeviceToken" /\ result.ok /\ ~result.registered
  /\ \E i \in 1..Len(devices) :
       /\ devices[i].id = result.arg
       /\ ~devices[i].isActive /\ compTok[devices[i].id] = None
  /\ \E i \in 1..Len(devices) :
       devices[i].isActive /\ compTok[devices[i].id] # None

\* C19: in the user variant a successful recordPushToken(T) leaves the
\* caller's record holding T and the delivery component holding T for the
\* caller, whatever token was held before, and touches no other user; a
\* second registration replaces the first.
C19_RegistrationOverwrites ==
  [][(variant = "user" /\ result'.op = "recordPushToken" /\ result'.ok)
       => /\ Len(users') = Len(users)
          /\ \A i \in 1..Len(users) :
               users'[i] = IF users[i].id = result'.caller
                           THEN [users[i] EXCEPT !.pushToken = result'.arg]
                           ELSE users[i]
          /\ compTok' = [compTok EXCEPT ![result'.caller] = result'.arg]]_vars

\* a user holding token 1 registered token 2: both places now hold 2
C19_Witness ==
  /\ variant = "user"
  /\ result.op = "recordPushToken" /\ result.ok
  /\ result.held = 1 /\ result.arg = 2
  /\ Get(users, result.caller, NoUser).pushToken = 2
  /\ compTok[result.caller] = 2

\* C20: every sendSystemBroadcast answer breaks the users table down
\* consistently: totalUsers is the table's size and the sum of usersWithTokens
\* and usersWithoutTokens, total is usersWithTokens, details has totalUsers
\* entries, and exactly usersWithoutTokens of them name a user that was not
\* passed to the delivery component.
C20_SystemBroadcastBreakdown ==
  result.op = "sendSystemBroadcast" =>
    /\ result.ok
    /\ result.totalUsers = Len(users)
    /\ result.totalUsers = result.usersWithTokens + result.usersWithoutTokens
    /\ result.total = result.usersWithTokens
    /\ Len(result.attempts) = result.usersWithTokens
    /\ Len(result.details) = result.totalUsers
    /\ Cardinality({j \in 1..Len(result.details) :
                      \A i \in 1..Len(result.attempts) :
                        result.attempts[i].id # result.details[j].id})
         = result.usersWithoutTokens

\* a system broadcast over three users, two with a token and one without
C20_Witness ==
  /\ result.op = "sendSystemBroadcast"
  /\ result.totalUsers = 3
  /\ result.usersWithTokens = 2 /\ result.usersWithoutTokens = 1
  /\ Len(result.details) = 3

\* C21: the data object a broadcast hands to the delivery component holds
\* every key of the caller's data with the caller's value, and the type tag,
\* the timestamp and (user variant broadcast with a sender) the sender's id.
C21_PayloadKeepsCallerData ==
  (result.op \in {"sendBroadcastNotification", "sendSystemBroadcast"}
     /\ result.payload # NoData)
    => /\ \A k \in DataKeys : result.data[k] \subseteq result.payload[k]
       /\ result.payload.type # {} /\ result.payload.timestamp # {}
       /\ (variant = "user" /\ result.senderId # None)
            => result.payload.senderId # {}

\* C22: in the user variant, once a user has signed out, that user's record
\* holds no pushToken and the delivery component holds no token for the
\* user, so that no later broadcast is delivered to the user.
C22_SignOutCleansToken ==
  (variant = "user" /\ result.op = "signOut" /\ result.caller # None)
    => /\ Get(users, result.caller, NoUser).pushToken = None
       /\ compTok[result.caller] = None

\* C23: in the device variant sendNotificationByToken and sendTestNotification
\* aimed at a device marked inactive fail without asking the delivery
\* component for a delivery (and so without writing lastSeen).
C23_InactiveNeverAttempted ==
  \A i \in 1..Len(devices) :
    (/\ variant = "device"
     /\ ~devices[i].isActive
     /\ \/ result.op = "sendTestNotification" /\ result.arg = devices[i].id
        \/ /\ result.op = "sendNotificationByToken"
           /\ result.arg = devices[i].pushToken)
      => (~result.ok /\ result.attempts = <<>>)

\* the users holding a token, in table order, without the user `but`
TokenHolders(but) ==
  SelectSeq(users, LAMBDA u : u.pushToken # None /\ u.id # but)

C25_IsActiveDefined ==
  variant = "device" =>
    \A i \in 1..Len(devices) :
      /\ devices[i].hasIsActive
      /\ isActiveNotFalse(devices[i]) = isActiveTruthy(devices[i])
      /\ isActiveTruthy(devices[i]) = isActiveOrTrue(devices[i])

\* one device deactivated, one re-registered: both rows carry isActive
C25_Witness ==
  /\ variant = "device" /\ Len(devices) = 2
  /\ ~devices[1].isActive /\ devices[1].hasIsActive
  /\ devices[2].isActive /\ devices[2].lastSeen > 0
  /\ result.op = "registerDevice" /\ result.ret = devices[2].id

\* C26: a broadcast (sendBroadcastNotification of either variant,
\* sendSystemBroadcast) writes nothing: whatever the delivery outcomes, the
\* step leaves every user and device row and the delivery component's tokens
\* and pause flags as they were.
C26_BroadcastWritesNothing ==
  [][result'.op \in {"sendBroadcastNotification", "sendSystemBroadcast"}
       => /\ users' = users /\ devices' = devices
          /\ compTok' = compTok /\ paused' = paused]_vars

\* a device broadcast in which one delivery raised and one returned an id
C26_Witness ==
  /\ variant = "device" /\ IsBroadcast
  /\ result.failed = 1 /\ result.success = 1
  /\ \A i \in 1..Len(devices) : devices[i].isActive

\* the awaits of registerForPushNotifications
RegisterAwaits ==
  {"requestPermissions", "getPermissions", "getExpoPushToken", "register"}

Registering(p) == calls[p].pc \in RegisterAwaits

\* C27: while a registerForPushNotifications invocation is between its start
\* and its return, isLoading is true (also after requestPermissions ran
\* inside it), so no second registration runs beside it; and once no
\* invocation of the hook is in progress, isLoading is false.
C27_LoadingWhileRegistering ==
  /\ \A p \in Procs : Registering(p) => client.isLoading
  /\ \A p, q \in Procs : Registering(p) /\ Registering(q) => p = q
  /\ (\A p \in Procs : calls[p].pc \in {"idle", "done"}) => ~client.isLoading

\* registerForPushNotifications of invocation p returns in this step
RegisterReturns(p) ==
  /\ calls[p].pc \in RegisterAwaits \cup {"idle"}
  /\ calls'[p].pc = "done"

\* the backend holds the registration of this phone's token
BackendRegistered(tok) ==
  IF variant = "user"
  THEN /\ \E i \in 1..Len(users) : users[i].id = Me /\ users[i].pushToken = tok
       /\ compTok[Me] = tok
  ELSE \E i \in 1..Len(devices) :
         /\ devices[i].pushToken = tok
         /\ devices[i].hasIsActive /\ devices[i].isActive

\* C28: registerForPushNotifications always returns; a non-null token is
\* returned only by the step in which the backend mutation completed, with
\* the registration held by the backend; and when it returns null the client,
\* unregistered when the call started, is still not registered.
C28_NullLeavesUnregistered ==
  [][\A p \in Procs :
       RegisterReturns(p) =>
         /\ calls'[p].ret # None =>
              /\ calls[p].pc = "register"
              /\ \E tok \in Tokens :
                   tok = calls'[p].ret /\ BackendRegistered(tok)'
         /\ calls'[p].ret = None => ~isRegistered']_vars

\* C29: the alert handleTestNotification shows is 'Success' only when the
\* sendTestNotification mutation completed, and is 'Error' whenever the
\* hook's sendTestNotification failed.
C29_AlertMatchesOutcome ==
  /\ client.alert = "Success" => client.sent
  /\ client.alert # "none" /\ ~client.sent => client.alert = "Error"

\* the row at position i is as a removal leaves it: a user without pushToken
\* for whom the component holds no token, a device with isActive false
DeregisteredAt(i) ==
  IF variant = "user"
  THEN Rows[i].pushToken = None /\ compTok[Rows[i].id] = None
  ELSE Rows[i].hasIsActive /\ ~Rows[i].isActive

\* this step is a registration of the recipient at position i
Reregisters(i) ==
  IF variant = "user"
  THEN result'.op = "recordPushToken" /\ result'.caller = Rows[i].id
  ELSE result'.op = "registerDevice" /\ result'.arg = Rows[i].pushToken

\* the broadcast answer has no delivery call for the recipient at position i
\* and no entry for it other than no_token / inactive; it has such an entry,
\* always or unless the call excluded the recipient
SkippedAt(i, always) ==
  /\ \A k \in 1..Len(result.attempts) : result.attempts[k].id # Rows[i].id
  /\ \A k \in DetailsOf(Rows[i].id) :
       result.details[k].status =
         (IF variant = "user" THEN "no_token" ELSE "inactive")
  /\ (always \/ Rows[i].id # ExcludedId) => DetailsOf(Rows[i].id) # {}

\* a removal leaves the recipient deregistered, and a deregistered recipient
\* stays so through every step that is not its own registration
RemovalLasts ==
  /\ Removed # None =>
       \A i \in 1..Len(Rows) : Rows[i].id = Removed => DeregisteredAt(i)'
  /\ \/ UNCHANGED <<users, devices, compTok>>
     \/ \A i \in 1..Len(Rows) :
          DeregisteredAt(i) /\ ~Reregisters(i) => DeregisteredAt(i)'

\* C30 as stated: a removal leaves the recipient deregistered, it stays so
\* through every step that is not its own registration, and every broadcast
\* answer given while it is deregistered has no delivery call for it and
\* lists it as no_token / inactive, whatever the call excluded.
C30_RemovedListed ==
  [][/\ RemovalLasts
     /\ IsBroadcast' =>
          \A i \in 1..Len(Rows) : DeregisteredAt(i) => SkippedAt(i, TRUE)'
    ]_vars

\* C30: a removal leaves the recipient deregistered, it stays so through
\* every step that is not its own registration, and every broadcast answer
\* given while it is deregistered has no delivery call for it, no success or
\* failed entry for it, and lists it as no_token / inactive unless the call
\* excluded it, in which case it has no entry.
C30_RemovedSkippedUnlessExcluded ==
  [][/\ RemovalLasts
     /\ IsBroadcast' =>
          \A i \in 1..Len(Rows) :
            DeregisteredAt(i) =>
              /\ SkippedAt(i, FALSE)'
              /\ Rows[i].id = ExcludedId' => DetailsOf(Rows[i].id)' = {}
    ]_vars

\* a device broadcast answered after a removal: a removed device is listed
\* inactive while another device was handed to the delivery component
C30_Witness ==
  /\ variant = "device"
  /\ IsBroadcast
  /\ result.attempts # <<>>
  /\ \E i \in 1..Len(Rows) :
       /\ DeregisteredAt(i)
       /\ \E k \in DetailsOf(Rows[i].id) : result.details[k].status = "inactive"
====
